---------------------------- MODULE Spec2Model ----------------------------
(***************************************************************************)
(* A model of synopsize (chbrown/synopsize): the type classifier           *)
(* (knownTypes, inferType), the comparators, the frequency counter and     *)
(* the synopsis aggregator.                                                *)
(*                                                                         *)
(* A string is a sequence of one-character strings: "10" is <<"1", "0">>.  *)
(* The JavaScript value undefined is the one-element sequence <<"undefined">>,*)
(* which no sequence of characters equals.                                 *)
(***************************************************************************)
EXTENDS Integers, Sequences, FiniteSets, TLC

VARIABLES
    values,     \* the caller's column array (the argument of synopsize)
    synopsis,   \* the record synopsize returned, or NoSynopsis before the call
    pc,         \* "call" before synopsize has run, "done" after it returned
    str,        \* a single string handed to the patterns
    accepted    \* the ids of the knownTypes whose regExp accepted str, or Untested

vars == <<values, synopsis, pc, str, accepted>>

-----------------------------------------------------------------------------
(* Bounds *)

\* The longest column the model hands to synopsize.
MaxLen == 3

\* The longest string the model hands to the patterns one at a time.
MaxStrLen == 5

-----------------------------------------------------------------------------
(* JavaScript values and strings *)

undefined == <<"undefined">>

\* String(value): a string is itself, undefined becomes the text "undefined".
String(value) ==
    IF value = undefined
    THEN <<"u", "n", "d", "e", "f", "i", "n", "e", "d">>
    ELSE value

Digit == {"0", "1", "2", "3", "4", "5", "6", "7", "8", "9"}

\* The characters \s matches, as far as a TLA+ string can name them.
WhiteSpace == {" ", "\t", "\n", "\r", "\f"}

-----------------------------------------------------------------------------
(* Regular expressions.  A regExp is a set of alternatives, anchored at     *)
(* both ends; an alternative is a sequence of items; an item is a character *)
(* class repeated lo to hi times (hi = -1: no upper limit).  A group with a *)
(* backreference, (-?) ... \1, and an optional group are written out as     *)
(* one alternative per way of matching the group.                           *)

Item(chars, lo, hi) == [chars |-> chars, lo |-> lo, hi |-> hi]
One(chars) == Item(chars, 1, 1)
Opt(chars) == Item(chars, 0, 1)

\* The positions of s an item can end at, started at any position of P.
Step(s, P, item) ==
    LET hi == IF item.hi = -1 THEN Len(s) ELSE item.hi
    IN  { p + k : <<p, k>> \in
            { pk \in P \X (item.lo .. hi) :
                /\ pk[1] + pk[2] <= Len(s)
                /\ \A i \in (pk[1] + 1) .. (pk[1] + pk[2]) : s[i] \in item.chars } }

RECURSIVE Run(_, _, _, _)
Run(s, P, alt, i) ==
    IF i > Len(alt) THEN P ELSE Run(s, Step(s, P, alt[i]), alt, i + 1)

\* regExp.test(s) for an anchored regExp: some alternative matches all of s.
regExpTest(regExp, s) ==
    \E alt \in regExp : Len(s) \in Run(s, {0}, alt, 1)

\* /^\s*$/
blankRegExp == { <<Item(WhiteSpace, 0, -1)>> }

isEmpty(value) ==
    (value = undefined) \/ regExpTest(blankRegExp, value)


-----------------------------------------------------------------------------
(* Natural numbers of any size, as little-endian sequences of limbs below   *)
(* LimbBase, without leading zero limbs: what the arithmetic of an IEEE 754 *)
(* double needs, a double's 53-bit significand being wider than the        *)
(* 32-bit integers TLC computes with.                                       *)

LimbBase == 2^15

RECURSIVE Norm(_)
Norm(x) ==
    IF x = <<>> \/ x[Len(x)] # 0 THEN x ELSE Norm(SubSeq(x, 1, Len(x) - 1))

\* x * m + a, for m and a below LimbBase.
RECURSIVE MulAdd(_, _, _)
MulAdd(x, m, a) ==
    IF x = <<>>
    THEN IF a = 0 THEN <<>> ELSE <<a>>
    ELSE LET t == x[1] * m + a
         IN  <<t % LimbBase>> \o MulAdd(Tail(x), m, t \div LimbBase)

\* x * 2^n
Shl(x, n) ==
    [i \in 1 .. (n \div 15) |-> 0] \o MulAdd(x, 2^(n % 15), 0)

RECURSIVE DivFrom(_, _, _, _, _)
DivFrom(x, d, i, r, q) ==
    IF i = 0
    THEN [q |-> Norm(q), r |-> r]
    ELSE LET t == r * LimbBase + x[i]
         IN  DivFrom(x, d, i - 1, t % d, <<t \div d>> \o q)

\* Quotient and remainder of x by d, for d below LimbBase.
DivSmall(x, d) == DivFrom(x, d, Len(x), 0, <<>>)

RECURSIVE BitLenSmall(_)
BitLenSmall(n) == IF n = 0 THEN 0 ELSE 1 + BitLenSmall(n \div 2)

BitLen(x) ==
    IF x = <<>> THEN 0 ELSE 15 * (Len(x) - 1) + BitLenSmall(x[Len(x)])

\* x \div 2^n, and whether a nonzero bit was shifted out.
Shr(x, n) ==
    LET d    == n \div 15
        low  == SubSeq(x, 1, d)
        rest == DivSmall(SubSeq(x, d + 1, Len(x)), 2^(n % 15))
    IN  [q |-> rest.q,
         sticky |-> (\E i \in 1 .. Len(low) : low[i] # 0) \/ rest.r # 0]

IsOdd(x) == x # <<>> /\ x[1] % 2 = 1

RECURSIVE CmpFrom(_, _, _)
CmpFrom(x, y, i) ==
    IF i = 0 THEN 0
    ELSE IF x[i] < y[i] THEN -1
    ELSE IF x[i] > y[i] THEN 1
    ELSE CmpFrom(x, y, i - 1)

CmpBig(x, y) ==
    IF Len(x) < Len(y) THEN -1
    ELSE IF Len(x) > Len(y) THEN 1
    ELSE CmpFrom(x, y, Len(x))

\* x \div 10^k, and whether any of the divisions left a remainder.
RECURSIVE DivPow10(_, _, _)
DivPow10(x, k, sticky) ==
    IF k = 0
    THEN [q |-> x, sticky |-> sticky]
    ELSE LET d == DivSmall(x, 10)
         IN  DivPow10(d.q, k - 1, sticky \/ d.r # 0)

-----------------------------------------------------------------------------
(* IEEE 754 doubles: [sign, m, e] is sign * m * 2^e with a significand m of *)
(* exactly MantissaBits bits, or m = <<>> for zero.  No string of the model *)
(* is long enough (309 digits) to leave the exponent range.                 *)

MantissaBits == 53

DigitValue(c) ==
    CASE c = "0" -> 0 [] c = "1" -> 1 [] c = "2" -> 2 [] c = "3" -> 3
      [] c = "4" -> 4 [] c = "5" -> 5 [] c = "6" -> 6 [] c = "7" -> 7
      [] c = "8" -> 8 [] c = "9" -> 9

RECURSIVE DigitsToBig(_, _, _)
DigitsToBig(digits, i, acc) ==
    IF i > Len(digits) THEN acc
    ELSE DigitsToBig(digits, i + 1, MulAdd(acc, 10, DigitValue(digits[i])))

\* The double nearest to D / 10^k, ties to the even significand.
DecimalToDouble(sign, D, k) ==
    IF D = <<>>
    THEN [sign |-> sign, m |-> <<>>, e |-> 0]
    ELSE LET P     == MantissaBits + 1 + 4 * k
             quot  == DivPow10(Shl(D, P), k, FALSE)
             L     == BitLen(quot.q)
             guard == Shr(quot.q, L - (MantissaBits + 1))
             m     == Shr(guard.q, 1).q
             up    == IsOdd(guard.q) /\ (quot.sticky \/ guard.sticky \/ IsOdd(m))
             m1    == IF up THEN MulAdd(m, 1, 1) ELSE m
             carry == BitLen(m1) > MantissaBits
         IN  [sign |-> sign,
              m    |-> IF carry THEN Shr(m1, 1).q ELSE m1,
              e    |-> L - MantissaBits - P + (IF carry THEN 1 ELSE 0)]

\* ToNumber of a string the REAL pattern accepts: an optional "-", digits,
\* and at most one "." among them.
ToNumber(s) ==
    LET neg    == s # <<>> /\ s[1] = "-"
        body   == IF neg THEN Tail(s) ELSE s
        dots   == {i \in 1 .. Len(body) : body[i] = "."}
        dot    == IF dots = {} THEN Len(body) + 1 ELSE CHOOSE i \in dots : TRUE
        whole  == SubSeq(body, 1, dot - 1)
        frac   == SubSeq(body, dot + 1, Len(body))
    IN  DecimalToDouble(IF neg THEN -1 ELSE 1,
                        DigitsToBig(whole \o frac, 1, <<>>), Len(frac))

\* The sign of a - b for two doubles (-0 and 0 are equal).
DoubleCmp(a, b) ==
    LET sa == IF a.m = <<>> THEN 0 ELSE a.sign
        sb == IF b.m = <<>> THEN 0 ELSE b.sign
        mag == IF a.e < b.e THEN -1
               ELSE IF a.e > b.e THEN 1
               ELSE CmpBig(a.m, b.m)
    IN  IF sa < sb THEN -1
        ELSE IF sa > sb THEN 1
        ELSE sa * mag

-----------------------------------------------------------------------------
(* Comparators.  Each returns the sign of what the code returns: sort reads *)
(* no more of it.                                                           *)

\* The characters of the model's strings in the order of the root collation
\* localeCompare applies: white space, punctuation, digits, letters.  No
\* letter occurs in both cases, so the order of two strings is decided by
\* the first character in which they differ.
CollationOrder ==
    <<"\t", "\n", "\f", "\r", " ", "-", ":", ".",
      "0", "1", "2", "3", "4", "5", "6", "7", "8", "9", "a", "T", "Z">>

CollationWeight(c) == CHOOSE i \in 1 .. Len(CollationOrder) : CollationOrder[i] = c

RECURSIVE localeCompare(_, _, _)
localeCompare(a, b, i) ==
    IF i > Len(a) /\ i > Len(b) THEN 0
    ELSE IF i > Len(a) THEN -1
    ELSE IF i > Len(b) THEN 1
    ELSE IF CollationWeight(a[i]) < CollationWeight(b[i]) THEN -1
    ELSE IF CollationWeight(a[i]) > CollationWeight(b[i]) THEN 1
    ELSE localeCompare(a, b, i + 1)

compareStrings(a, b) == localeCompare(a, b, 1)

\* a - b on two strings converts both with ToNumber first.
compareNumbers(a, b) == DoubleCmp(ToNumber(a), ToNumber(b))

compareFunction(name, a, b) ==
    IF name = "compareNumbers" THEN compareNumbers(a, b) ELSE compareStrings(a, b)

-----------------------------------------------------------------------------
(* The types *)

\* [12]\d{3}(-?)[01]\d\1[0123]\d with the group matching "-" sep times.
datePart(sep) ==
    << One({"1", "2"}), Item(Digit, 3, 3), Item({"-"}, sep, sep),
       One({"0", "1"}), One(Digit), Item({"-"}, sep, sep),
       One({"0", "1", "2", "3"}), One(Digit) >>

\* timePart with any digit as the hour's first: \d?\d:[0-5]\d
timePartAnyHour ==
    << Opt(Digit), One(Digit), One({":"}),
       One({"0", "1", "2", "3", "4", "5"}), One(Digit) >>

\* [012]?\d:[0-5]\d
timePart ==
    << Opt({"0", "1", "2"}), One(Digit), One({":"}),
       One({"0", "1", "2", "3", "4", "5"}), One(Digit) >>

\* (:[0-5]\d)? with the group matching sec times.
secondsPart(sec) ==
    IF sec = 1
    THEN << One({":"}), One({"0", "1", "2", "3", "4", "5"}), One(Digit) >>
    ELSE << >>

DATETIME ==
    [id |-> "DATETIME",
     regExp |-> { datePart(sep) \o <<One({"T", " "})>> \o timePart
                    \o secondsPart(sec) \o <<Opt({"Z"})>> :
                  <<sep, sec>> \in {0, 1} \X {0, 1} },
     compareFunction |-> "compareStrings"]

DATE ==
    [id |-> "DATE",
     regExp |-> { datePart(sep) : sep \in {0, 1} },
     compareFunction |-> "compareStrings"]

INTEGER ==
    [id |-> "INTEGER",
     regExp |-> { << Opt({"-"}), Item(Digit, 1, 10) >> },
     compareFunction |-> "compareNumbers"]

BIGINT ==
    [id |-> "BIGINT",
     regExp |-> { << Opt({"-"}), Item(Digit, 1, 19) >> },
     compareFunction |-> "compareNumbers"]

REAL ==
    [id |-> "REAL",
     regExp |-> { << Opt({"-"}), Item(Digit, 1, -1) >>,
                  << Opt({"-"}), One({"."}), Item(Digit, 1, -1) >>,
                  << Opt({"-"}), Item(Digit, 1, -1), One({"."}), Item(Digit, 0, -1) >> },
     compareFunction |-> "compareNumbers"]

TIME ==
    [id |-> "TIME",
     regExp |-> { timePart },
     compareFunction |-> "compareStrings"]

\* knownTypes with BIGINT ahead of INTEGER.
knownTypesBigintFirst == << DATETIME, DATE, BIGINT, INTEGER, REAL, TIME >>

\* knownTypes with the all-digit types ahead of the date types.
knownTypesIntegerFirst == << INTEGER, BIGINT, DATETIME, DATE, REAL, TIME >>

knownTypes == << DATETIME, DATE, INTEGER, BIGINT, REAL, TIME >>

\* The characters . matches among those of the model's strings: all but the
\* line terminators.
Dot ==
    ({ CollationOrder[i] : i \in 1 .. Len(CollationOrder) }
        \cup {"u", "n", "d", "e", "f", "i"}) \ {"\n", "\r"}

\* /^.*$/ is never consulted: defaultType.test is true of any values.
defaultType ==
    [id |-> "TEXT",
     regExp |-> { << Item(Dot, 0, -1) >> },
     compareFunction |-> "compareStrings"]

\* test with some in place of every.
testSome(knownType, vals) ==
    \E i \in 1 .. Len(vals) : regExpTest(knownType.regExp, String(vals[i]))

\* knownType.test(values): every value's string is accepted by the regExp.
test(knownType, vals) ==
    \A i \in 1 .. Len(vals) : regExpTest(knownType.regExp, String(vals[i]))

RECURSIVE inferTypeFrom(_, _)
inferTypeFrom(vals, i) ==
    IF i > Len(knownTypes) THEN defaultType
    ELSE IF test(knownTypes[i], vals) THEN knownTypes[i]
    ELSE inferTypeFrom(vals, i + 1)

inferType(vals) ==
    IF Len(vals) > 0 THEN inferTypeFrom(vals, 1) ELSE defaultType

-----------------------------------------------------------------------------
(* The frequency counter.  A Map is the sequence of its <<key, value>>      *)
(* entries in insertion order; set on a key it holds keeps the entry's place.*)

mapHas(map, key) == \E i \in 1 .. Len(map) : map[i][1] = key

mapGet(map, key) == map[CHOOSE i \in 1 .. Len(map) : map[i][1] = key][2]

mapSet(map, key, n) ==
    IF mapHas(map, key)
    THEN [i \in 1 .. Len(map) |-> IF map[i][1] = key THEN <<key, n>> ELSE map[i]]
    ELSE Append(map, <<key, n>>)

RECURSIVE countFrom(_, _, _)
countFrom(vals, i, counts) ==
    IF i > Len(vals) THEN counts
    ELSE LET previous == IF mapHas(counts, vals[i]) THEN mapGet(counts, vals[i]) ELSE 0
         IN  countFrom(vals, i + 1, mapSet(counts, vals[i], previous + 1))

count(vals) == countFrom(vals, 1, <<>>)

-----------------------------------------------------------------------------
(* The aggregator *)

\* values.filter(value => !isEmpty(String(value))): a new array.
RECURSIVE filter(_)
filter(vals) ==
    IF vals = <<>> THEN <<>>
    ELSE IF ~isEmpty(String(Head(vals)))
         THEN <<Head(vals)>> \o filter(Tail(vals))
         ELSE filter(Tail(vals))

\* Whether sort may leave a right before b: undefined goes last without
\* being compared, the others go by the comparator.
inOrder(name, a, b) ==
    \/ b = undefined
    \/ a # undefined /\ compareFunction(name, a, b) <= 0

\* The places of a sorted array s at which x may be put.
insertions(s, x, name) ==
    { SubSeq(s, 1, k) \o <<x>> \o SubSeq(s, k + 1, Len(s)) : k \in
        { k \in 0 .. Len(s) :
            /\ k = 0 \/ inOrder(name, s[k], x)
            /\ k = Len(s) \/ inOrder(name, x, s[k + 1]) } }

RECURSIVE sortFrom(_, _, _)
sortFrom(arr, name, n) ==
    IF n = 0 THEN { <<>> }
    ELSE UNION { insertions(s, arr[n], name) : s \in sortFrom(arr, name, n - 1) }

\* array.sort(compareFunction): the orders the array may be left in, which
\* are its arrangements in ascending order of the comparator with the
\* undefined elements last.  Elements that compare equal are in the order
\* the engine's algorithm leaves them in: any order here.
sort(arr, name) == sortFrom(arr, name, Len(arr))

\* array[index], undefined outside the array.
at(arr, index) == IF index \in 1 .. Len(arr) THEN arr[index] ELSE undefined

\* synopsize sorting the array it was given instead of a filtered copy's
\* own storage: values and nonEmptyValues share the sorted elements.
synopsizeSortsValues(vals) ==
    LET type == inferType(filter(vals))
    IN  { [typeName |-> type.id,
           values |-> sortedValues,
           nonEmptyValues |-> filter(sortedValues),
           minimum |-> at(filter(sortedValues), 1),
           maximum |-> at(filter(sortedValues), Len(filter(sortedValues))),
           counts |-> count(filter(sortedValues))] :
          sortedValues \in sort(vals, type.compareFunction) }

\* The records synopsize may return.  nonEmptyValues and sortedNonEmptyValues
\* are one array: sort works in place and returns the array it was given.
synopsize(vals) ==
    LET nonEmptyValues == filter(vals)
        type == inferType(nonEmptyValues)
    IN  { [typeName |-> type.id,
           values |-> vals,
           nonEmptyValues |-> sortedNonEmptyValues,
           minimum |-> at(sortedNonEmptyValues, 1),
           maximum |-> at(sortedNonEmptyValues, Len(sortedNonEmptyValues)),
           counts |-> count(sortedNonEmptyValues)] :
          sortedNonEmptyValues \in sort(nonEmptyValues, type.compareFunction) }

-----------------------------------------------------------------------------
(* The columns and strings of the model *)

Universe ==
    { <<>>,
      <<" ", "\t">>,
      undefined,
      <<"9">>,
      <<"1", "0">>,
      <<"2">>,
      <<"2", "0", "1", "6", "0", "1", "1", "8">>,
      <<"2", "0", "1", "6", "-", "0", "1", "-", "1", "8", "T",
        "0", "1", ":", "4", "5", ":", "5", "3", "Z">>,
      <<"9", "0", "0", "7", "1", "9", "9", "2", "5", "4", "7", "4", "0", "9", "9", "3">>,
      <<"9", "0", "0", "7", "1", "9", "9", "2", "5", "4", "7", "4", "0", "9", "9", "2">>,
      <<"1", ".", "5">>,
      <<"2", "3", ":", "5", "4">>,
      <<"a">> }

Columns == UNION { [1 .. n -> Universe] : n \in 0 .. MaxLen }

PatternAlphabet == {"0", "2", "3", "5", "9", ":"}

PatternStrings == UNION { [1 .. n -> PatternAlphabet] : n \in 0 .. MaxStrLen }

\* The longest column of numerals the model hands to synopsize.
MaxNumLen == 2

Repeat(c, n) == [i \in 1 .. n |-> c]

\* Numerals around the limits of the numeric patterns (10 and 19 digits),
\* with and without sign and decimal point, an 8-digit date, and the bare
\* sign and point.
NumericStrings ==
    { sign \o Repeat("7", n) : <<sign, n>> \in {<<>>, <<"-">>} \X {1, 10, 11, 19, 20} }
    \cup { <<"7", ".">>, <<"7", ".", "7">>, <<".", "7">>, <<"-", ".", "7">>,
           Repeat("7", 19) \o <<".", "7">>,
           <<".">>, <<"-">>,
           <<"2", "0", "1", "6", "0", "1", "1", "8">> }

NumericColumns == UNION { [1 .. n -> NumericStrings] : n \in 0 .. MaxNumLen }

NoSynopsis == "NoSynopsis"
Untested == {"Untested"}

-----------------------------------------------------------------------------
(* The aggregator on a column *)

Init ==
    /\ values \in Columns
    /\ synopsis = NoSynopsis
    /\ pc = "call"
    /\ str = <<>>
    /\ accepted = Untested

\* const synopsis = synopsize(values): the record's values field is the
\* caller's array itself.
Synopsize ==
    /\ pc = "call"
    /\ synopsis' \in synopsize(values)
    /\ values' = synopsis'.values
    /\ pc' = "done"
    /\ UNCHANGED <<str, accepted>>

Next == Synopsize

Spec == Init /\ [][Next]_vars

-----------------------------------------------------------------------------
(* The patterns on one string *)

PatternInit ==
    /\ values = <<>>
    /\ synopsis = NoSynopsis
    /\ pc = "call"
    /\ str \in PatternStrings
    /\ accepted = Untested

\* regExp.test(String(value)) of each known type on str.
TestPatterns ==
    /\ accepted = Untested
    /\ accepted' = { knownTypes[i].id : i \in
                       { j \in 1 .. Len(knownTypes) : test(knownTypes[j], <<str>>) } }
    /\ UNCHANGED <<values, synopsis, pc, str>>

PatternNext == TestPatterns

SpecPattern == PatternInit /\ [][PatternNext]_vars

-----------------------------------------------------------------------------
(* The aggregator on a column of numerals *)

NumericInit ==
    /\ values \in NumericColumns
    /\ synopsis = NoSynopsis
    /\ pc = "call"
    /\ str = <<>>
    /\ accepted = Untested

SpecNumeric == NumericInit /\ [][Next]_vars

-----------------------------------------------------------------------------
(* What the claims speak of *)

Done == pc = "done"

Tested == accepted # Untested

\* A missing value: undefined, or a string of white space only.
IsMissing(v) ==
    \/ v = undefined
    \/ \A i \in 1 .. Len(v) : v[i] \in WhiteSpace

\* The non-missing values of a column, in record order.
NonMissing(vals) == SelectSeq(vals, LAMBDA v : ~IsMissing(v))

Elements(seq) == { seq[i] : i \in 1 .. Len(seq) }

Occurrences(seq, v) == Cardinality({ i \in 1 .. Len(seq) : seq[i] = v })

\* The distinct elements of a sequence, each at its first occurrence.
RECURSIVE FirstOccurrencesFrom(_, _)
FirstOccurrencesFrom(seq, i) ==
    IF i > Len(seq) THEN <<>>
    ELSE (IF \E j \in 1 .. (i - 1) : seq[j] = seq[i] THEN <<>> ELSE <<seq[i]>>)
            \o FirstOccurrencesFrom(seq, i + 1)

FirstOccurrences(seq) == FirstOccurrencesFrom(seq, 1)

Keys(map) == [i \in 1 .. Len(map) |-> map[i][1]]

RECURSIVE SumCounts(_, _)
SumCounts(map, i) == IF i > Len(map) THEN 0 ELSE map[i][2] + SumCounts(map, i + 1)

CandidateOrder == <<"DATETIME", "DATE", "INTEGER", "BIGINT", "REAL", "TIME">>

\* The validation pattern the code gives the type of that name.
PatternOf(id) ==
    (CHOOSE t \in {DATETIME, DATE, INTEGER, BIGINT, REAL, TIME} : t.id = id).regExp

Matches(id, v) == regExpTest(PatternOf(id), String(v))

\* The candidates, by their place in the fixed order, that every value matches.
Fits(vals) ==
    { i \in 1 .. Len(CandidateOrder) :
        \A j \in 1 .. Len(vals) : Matches(CandidateOrder[i], vals[j]) }

Least(S) == CHOOSE i \in S : \A j \in S : i <= j

-----------------------------------------------------------------------------
(* C1 *)

\* C1: on a non-empty sequence of values the classifier returns the first of
\* DATETIME, DATE, INTEGER, BIGINT, REAL, TIME whose pattern every value
\* matches, and TEXT when there is none; so one value that matches none of the
\* six makes the column TEXT whatever the others match.
C1_FirstTypeAllMatch ==
    (Done /\ synopsis.nonEmptyValues # <<>>) =>
        LET vals == synopsis.nonEmptyValues
        IN  /\ synopsis.typeName =
                 IF Fits(vals) = {} THEN "TEXT" ELSE CandidateOrder[Least(Fits(vals))]
            /\ (\E j \in 1 .. Len(vals) :
                    \A i \in 1 .. Len(CandidateOrder) : ~Matches(CandidateOrder[i], vals[j]))
                 => synopsis.typeName = "TEXT"

\* A column of two present values, one an INTEGER and one matching nothing,
\* classified TEXT.
C1_Witness ==
    /\ Done
    /\ Len(synopsis.nonEmptyValues) = 2
    /\ synopsis.typeName = "TEXT"
    /\ \E v \in Elements(synopsis.nonEmptyValues) : Matches("INTEGER", v)
    /\ \E v \in Elements(synopsis.nonEmptyValues) :
          ~IsMissing(v) /\ \A i \in 1 .. Len(CandidateOrder) : ~Matches(CandidateOrder[i], v)

-----------------------------------------------------------------------------
(* C2 *)

\* C2: nonEmptyValues is the subsequence of the input made of exactly the
\* non-missing values, in the order they have in the input.  Stated of the
\* columns that hold no undefined, where the code's filter and the claim
\* agree on which values are missing (C6 is about the others).
C2_NonEmptyValuesInRecordOrder ==
    (Done /\ undefined \notin Elements(values)) =>
        synopsis.nonEmptyValues = NonMissing(values)

-----------------------------------------------------------------------------
(* C3 *)

\* C3: synopsize leaves the input array as it was, and the values field of
\* the record has the length, the elements and the order the input had
\* before the call.
C3_ValuesUnchanged ==
    [][(pc = "call" /\ pc' = "done") =>
          (values' = values /\ synopsis'.values = values)]_vars

\* A returned record whose column held a missing value and whose present
\* values were reordered by the sort.
C3_Witness ==
    /\ Done
    /\ Len(synopsis.nonEmptyValues) < Len(synopsis.values)
    /\ Len(synopsis.nonEmptyValues) >= 2
    /\ synopsis.nonEmptyValues # filter(synopsis.values)

-----------------------------------------------------------------------------
(* C4 *)

\* A decimal numeral's exact value: sign * D / 10^k.
Decimal(s) ==
    LET neg    == s # <<>> /\ s[1] = "-"
        body   == IF neg THEN Tail(s) ELSE s
        digits == SelectSeq(body, LAMBDA c : c \in Digit)
        dots   == {i \in 1 .. Len(body) : body[i] = "."}
        k      == IF dots = {} THEN 0 ELSE Len(body) - (CHOOSE i \in dots : TRUE)
        D      == DigitsToBig(digits, 1, <<>>)
    IN  [sign |-> IF D = <<>> THEN 0 ELSE IF neg THEN -1 ELSE 1, D |-> D, k |-> k]

RECURSIVE TimesPow10(_, _)
TimesPow10(x, k) == IF k = 0 THEN x ELSE TimesPow10(MulAdd(x, 10, 0), k - 1)

\* a <= b for the exact values of two numerals.
NumericLeq(a, b) ==
    LET x == Decimal(a)
        y == Decimal(b)
    IN  \/ x.sign < y.sign
        \/ /\ x.sign = y.sign
           /\ x.sign * CmpBig(TimesPow10(x.D, y.k), TimesPow10(y.D, x.k)) <= 0

\* C4: in a column classified INTEGER, BIGINT or REAL, minimum and maximum
\* are elements of nonEmptyValues whose numeric value is at most, and at
\* least, the numeric value of every non-missing value.
C4_NumericExtrema ==
    (Done /\ synopsis.typeName \in {"INTEGER", "BIGINT", "REAL"}) =>
        /\ synopsis.minimum \in Elements(synopsis.nonEmptyValues)
        /\ synopsis.maximum \in Elements(synopsis.nonEmptyValues)
        /\ \A v \in Elements(synopsis.nonEmptyValues) :
              NumericLeq(synopsis.minimum, v) /\ NumericLeq(v, synopsis.maximum)

-----------------------------------------------------------------------------
(* C5 *)

\* C5: counts has one key per distinct non-missing value and no other key,
\* each key maps to the number of times the value occurs among the
\* non-missing values, the counts add up to the length of nonEmptyValues,
\* and counts.size is that length exactly when the non-missing values are
\* pairwise distinct.
C5_CountsTabulateNonMissing ==
    Done =>
        LET present == NonMissing(values)
            keys    == Keys(synopsis.counts)
        IN  /\ Elements(keys) = Elements(present)
            /\ Len(keys) = Cardinality(Elements(keys))
            /\ \A i \in 1 .. Len(synopsis.counts) :
                  synopsis.counts[i][2] = Occurrences(present, synopsis.counts[i][1])
            /\ SumCounts(synopsis.counts, 1) = Len(synopsis.nonEmptyValues)
            /\ (Len(synopsis.counts) = Len(synopsis.nonEmptyValues))
                  <=> (Cardinality(Elements(present)) = Len(present))

-----------------------------------------------------------------------------
(* C6 *)

\* C6: a value is missing exactly when it is undefined or its string is
\* white space only; a missing value is never in nonEmptyValues, never an
\* extremum of a column that has a present value, never a key of counts; a
\* column of missing values only is TEXT with nonEmptyValues empty, both
\* extrema undefined and counts empty.
C6_MissingValuesExcluded ==
    Done =>
        /\ Elements(synopsis.nonEmptyValues) = { v \in Elements(values) : ~IsMissing(v) }
        /\ \A v \in Elements(Keys(synopsis.counts)) : ~IsMissing(v)
        /\ NonMissing(values) # <<>> =>
              ~IsMissing(synopsis.minimum) /\ ~IsMissing(synopsis.maximum)
        /\ NonMissing(values) = <<>> =>
              /\ synopsis.typeName = "TEXT"
              /\ synopsis.nonEmptyValues = <<>>
              /\ synopsis.minimum = undefined
              /\ synopsis.maximum = undefined
              /\ synopsis.counts = <<>>

-----------------------------------------------------------------------------
(* C7 *)

\* YYYYMMDD: eight digits, the year's first 1 or 2, the month's first 0 or 1,
\* the day's first 0 to 3.
IsDate8(v) ==
    /\ Len(v) = 8
    /\ \A i \in 1 .. 8 : v[i] \in Digit
    /\ v[1] \in {"1", "2"}
    /\ v[5] \in {"0", "1"}
    /\ v[7] \in {"0", "1", "2", "3"}

-----------------------------------------------------------------------------
(* C8 *)

\* C8: when the non-missing values of a column are all one string, minimum
\* and maximum are that string and counts has the one entry of that string
\* with the number of non-missing values.
C8_SingleValueColumn ==
    (Done /\ Cardinality(Elements(NonMissing(values))) = 1) =>
        LET present == NonMissing(values)
        IN  /\ synopsis.minimum = present[1]
            /\ synopsis.maximum = present[1]
            /\ synopsis.counts = << <<present[1], Len(present)>> >>

-----------------------------------------------------------------------------
(* C9 *)

Minute(s, i) ==
    /\ s[i] \in {"0", "1", "2", "3", "4", "5"}
    /\ s[i + 1] \in Digit

\* A 1- or 2-digit hour of any digits, a colon, a minute.
IsTimeAnyHour(s) ==
    \/ Len(s) = 4 /\ s[1] \in Digit /\ s[2] = ":" /\ Minute(s, 3)
    \/ Len(s) = 5 /\ s[1] \in Digit /\ s[2] \in Digit /\ s[3] = ":" /\ Minute(s, 4)

\* An hour of one digit, or of two the first of which is 0, 1 or 2, a colon,
\* a minute.
IsTimeHourTo29(s) ==
    \/ Len(s) = 4 /\ s[1] \in Digit /\ s[2] = ":" /\ Minute(s, 3)
    \/ Len(s) = 5 /\ s[1] \in {"0", "1", "2"} /\ s[2] \in Digit /\ s[3] = ":"
          /\ Minute(s, 4)

-----------------------------------------------------------------------------
(* C10 *)

\* C10: the keys of counts are in the order in which each distinct
\* non-missing value first occurs in the input column.  Stated of the columns
\* that hold no undefined, as C2 is.
C10_CountsInFirstOccurrenceOrder ==
    (Done /\ undefined \notin Elements(values)) =>
        Keys(synopsis.counts) = FirstOccurrences(NonMissing(values))

-----------------------------------------------------------------------------
(* C11 *)

Unsigned(v) == IF v # <<>> /\ v[1] = "-" THEN Tail(v) ELSE v

\* An optional "-" and lo to hi digits.
IsPlainInteger(v, lo, hi) ==
    /\ Len(Unsigned(v)) \in lo .. hi
    /\ \A i \in 1 .. Len(Unsigned(v)) : Unsigned(v)[i] \in Digit

\* An optional "-", then digits with one decimal point before, among or
\* after them.
IsDecimalPointValue(v) ==
    LET body == Unsigned(v)
    IN  /\ Cardinality({ i \in 1 .. Len(body) : body[i] = "." }) = 1
        /\ \E i \in 1 .. Len(body) : body[i] \in Digit
        /\ \A i \in 1 .. Len(body) : body[i] \in Digit \cup {"."}

\* C11: what INTEGER accepts BIGINT accepts, and what BIGINT accepts REAL
\* accepts; so a non-empty column of integers of at most 10 digits that are
\* not all dates is INTEGER, one of integers of at most 19 digits with one of
\* 11 to 19 digits among them is BIGINT, and one of integers and
\* decimal-point values, with one of each, is REAL.
C11_NumericPatternsNested ==
    Done =>
        LET vals == synopsis.nonEmptyValues
            all(P(_)) == \A i \in 1 .. Len(vals) : P(vals[i])
            some(P(_)) == \E i \in 1 .. Len(vals) : P(vals[i])
        IN  /\ \A v \in Elements(values) :
                  /\ Matches("INTEGER", v) => Matches("BIGINT", v)
                  /\ Matches("BIGINT", v) => Matches("REAL", v)
            /\ ( /\ vals # <<>>
                 /\ all(LAMBDA v : IsPlainInteger(v, 1, 10))
                 /\ ~all(LAMBDA v : Matches("DATE", v)) )
                  => synopsis.typeName = "INTEGER"
            /\ ( /\ all(LAMBDA v : IsPlainInteger(v, 1, 19))
                 /\ some(LAMBDA v : IsPlainInteger(v, 11, 19)) )
                  => synopsis.typeName = "BIGINT"
            /\ ( /\ all(LAMBDA v : IsPlainInteger(v, 1, Len(v)) \/ IsDecimalPointValue(v))
                 /\ some(LAMBDA v : IsPlainInteger(v, 1, Len(v)))
                 /\ some(LAMBDA v : IsDecimalPointValue(v)) )
                  => synopsis.typeName = "REAL"

\* A column of a 10-digit and a 19-digit integer, the second accepted by
\* BIGINT and not by INTEGER, classified BIGINT.
C11_Witness ==
    /\ Done
    /\ Len(synopsis.nonEmptyValues) = 2
    /\ \E v \in Elements(synopsis.nonEmptyValues) : IsPlainInteger(v, 10, 10)
    /\ \E v \in Elements(synopsis.nonEmptyValues) :
          IsPlainInteger(v, 19, 19) /\ Matches("BIGINT", v) /\ ~Matches("INTEGER", v)
    /\ synopsis.typeName = "BIGINT"

=============================================================================
